---- MODULE Spec2Model ----
(***************************************************************************)
(* A model of the test suite orchestrator of src/orchestrator.py:          *)
(* TestOrchestrator.load_all_configs (the manifest loader), run_test (the  *)
(* execution driver), combine_reports (the report aggregator) and run (the *)
(* orchestration loop).                                                    *)
(*                                                                         *)
(* The collaborators are the file system under config_dir and reports_dir, *)
(* the YAML parser, the container runtime and the JUnit parser.  Their     *)
(* per-file, per-test and per-artifact outcomes are nondeterministic; the  *)
(* file-system calls exists, unlink and write themselves are taken to      *)
(* return.                                                                 *)
(***************************************************************************)
EXTENDS Integers, Sequences, FiniteSets, TLC

VARIABLES
    pc,                 \* position of run() / load_all_configs() / combine_reports()
    fs_config,          \* the documents under config_dir, indexed by path rank
    yaml_files,         \* load_all_configs: the sorted list of discovered paths
    fi,                 \* load_all_configs: index of the file being processed
    di,                 \* load_all_configs: index of the declaration being processed
    combined_config,    \* combined_config["tests"], an insertion-ordered dict
    test_name_counts,   \* test_name_counts, a dict name -> times seen
    collision_warnings, \* the warnings.warn calls of load_all_configs
    ti,                 \* run: index of the manifest entry of the loop
    attempts,           \* run: the names the loop has entered its body for
    report_files,       \* run: report_files
    failures,           \* run: the "Test ... failed" lines
    pulls,              \* the client.images.pull calls, with their outcome
    last_pull,          \* outcome of the pull of the test in progress
    containers_run,     \* the client.containers.run calls, with their outcome
    env_vars,           \* the environment of the last container run
    running,            \* the tests whose container is executing
    reports_dir,        \* the files of reports_dir: name -> content
    dir_at_combine,     \* reports_dir as combine_reports found it
    ai,                 \* combine_reports: index into report_files
    combined,           \* combine_reports: the suites of the JUnitXml accumulator
    skip_warnings,      \* combine_reports: "Report file not found" lines
    parse_errors,       \* combine_reports: "Error processing" lines
    merged_log,         \* combine_reports: "Merged" lines
    combine_calls,      \* number of calls of combine_reports
    writes,             \* number of writes of combined_report.xml
    summary,            \* combine_reports: the counters of the summary line
    notes,              \* run: the one-off messages printed
    raised,             \* the exception run() re-raised, "" if none
    in_name,            \* run_test called on its own: test_name
    in_config           \* run_test called on its own: test_config

vars == <<pc, fs_config, yaml_files, fi, di, combined_config, test_name_counts,
          collision_warnings, ti, attempts, report_files, failures, pulls,
          last_pull, containers_run, env_vars, reports_dir, dir_at_combine, ai,
          combined, skip_warnings, parse_errors, merged_log, combine_calls,
          writes, notes, raised, in_name, in_config, running, summary>>

-----------------------------------------------------------------------------
(* Bounds *)

MaxFiles == 3       \* configuration files under config_dir
MaxKeys == 2        \* keys of a configuration mapping given to run_test alone
MaxReports == 3     \* names of a list given to combine_reports alone

-----------------------------------------------------------------------------
(* Strings.  A configuration key is a tuple of one-character strings, so that *)
(* str.upper can be computed character by character.                         *)

LowerChars == <<"a","b","c","d","e","f","g","h","i","j","k","l","m",
                "n","o","p","q","r","s","t","u","v","w","x","y","z">>
UpperChars == <<"A","B","C","D","E","F","G","H","I","J","K","L","M",
                "N","O","P","Q","R","S","T","U","V","W","X","Y","Z">>

UpperChar(c) ==
    IF \E i \in DOMAIN LowerChars : LowerChars[i] = c
    THEN UpperChars[CHOOSE i \in DOMAIN LowerChars : LowerChars[i] = c]
    ELSE c

Upper(k) == [i \in DOMAIN k |-> UpperChar(k[i])]

RECURSIVE KeyStr(_)
KeyStr(k) == IF k = <<>> THEN "" ELSE k[1] \o KeyStr(Tail(k))

SourceFileKey == <<"s","o","u","r","c","e","_","f","i","l","e">>
ImageKey == <<"i","m","a","g","e">>

\* A YAML scalar, as a configuration value or as a test name (a key of the
\* tests mapping): an int, a bool or a string.
IntVal(n) == [t |-> "int", i |-> n, s |-> ""]
BoolVal(b) == [t |-> "bool", i |-> IF b THEN 1 ELSE 0, s |-> ""]
StrVal(x) == [t |-> "str", i |-> 0, s |-> x]

Str(v) ==
    CASE v.t = "int" -> ToString(v.i)
      [] v.t = "bool" -> (IF v.i = 1 THEN "True" ELSE "False")
      [] OTHER -> v.s

PathStr(p) == "/config/s" \o ToString(p) \o ".yaml"

\* line 168: f"{test_name}_report.xml" formats the name with str
ReportFile(test_name) == Str(test_name) \o "_report.xml"

CombinedReportName == "combined_report.xml"

-----------------------------------------------------------------------------
(* Dicts *)

Get(d, k, default) == IF k \in DOMAIN d THEN d[k] ELSE default

Put(d, k, v) == [x \in DOMAIN d \cup {k} |-> IF x = k THEN v ELSE d[x]]

Remove(d, k) == [x \in DOMAIN d \ {k} |-> d[x]]

EmptyDict == <<>>

\* An insertion-ordered dict of entries with a name: assignment to a name
\* already present replaces the value and keeps the position.
OrderedPut(seq, name, data) ==
    IF \E i \in DOMAIN seq : seq[i].name = name
    THEN [i \in DOMAIN seq |->
            IF seq[i].name = name THEN [name |-> name, data |-> data] ELSE seq[i]]
    ELSE Append(seq, [name |-> name, data |-> data])

\* a key already present keeps its value (setdefault for assignment)
ConfigPutKeeping(cfg, key, value) ==
    IF \E i \in DOMAIN cfg : cfg[i][1] = key
    THEN cfg
    ELSE Append(cfg, <<key, value>>)

\* config[key] = value on a mapping kept as a sequence of <<key, value>>.
ConfigPut(cfg, key, value) ==
    IF \E i \in DOMAIN cfg : cfg[i][1] = key
    THEN [i \in DOMAIN cfg |-> IF cfg[i][1] = key THEN <<key, value>> ELSE cfg[i]]
    ELSE Append(cfg, <<key, value>>)

Names(seq) == [i \in DOMAIN seq |-> seq[i].name]

Range(seq) == {seq[i] : i \in DOMAIN seq}

-----------------------------------------------------------------------------
(* The configuration documents the model draws from *)

\* config <<>> stands for an absent, null or empty config node.
Decl(name, image, config) == [name |-> name, image |-> image, config |-> config]

RetriesKey == <<"r","e","t","r","i","e","s">>

Unreadable == [kind |-> "unreadable", tests |-> <<>>]
NoTests == [kind |-> "notests", tests |-> <<>>]
WithTests(decls) == [kind |-> "tests", tests |-> decls]

\* image "" stands for an absent or empty image.
Docs ==
    { Unreadable,
      NoTests,
      WithTests(<<Decl(StrVal("a"), "img", << <<SourceFileKey, StrVal("own.yaml")>> >>)>>),
      WithTests(<<Decl(StrVal("a"), "", <<>>)>>),
      WithTests(<<Decl(StrVal("a"), "img", << <<RetriesKey, IntVal(3)>> >>),
                  Decl(StrVal("a-2"), "", <<>>)>>) }

-----------------------------------------------------------------------------
(* TestOrchestrator.__init__: the state before run() *)

Quiet ==
    /\ yaml_files = <<>>
    /\ fi = 0
    /\ di = 0
    /\ combined_config = <<>>
    /\ test_name_counts = EmptyDict
    /\ collision_warnings = <<>>
    /\ ti = 0
    /\ attempts = <<>>
    /\ report_files = <<>>
    /\ failures = <<>>
    /\ pulls = <<>>
    /\ last_pull = ""
    /\ containers_run = <<>>
    /\ env_vars = EmptyDict
    /\ running = {}
    /\ summary = EmptyDict
    /\ reports_dir = EmptyDict
    /\ dir_at_combine = EmptyDict
    /\ ai = 0
    /\ combined = <<>>
    /\ skip_warnings = <<>>
    /\ parse_errors = <<>>
    /\ merged_log = <<>>
    /\ combine_calls = 0
    /\ writes = 0
    /\ notes = {}
    /\ raised = ""

Init ==
    /\ pc = "start"
    /\ \E n \in 0 .. MaxFiles : fs_config \in [1 .. n -> Docs]
    /\ in_name = ""
    /\ in_config = <<>>
    /\ Quiet

-----------------------------------------------------------------------------
(* load_config and load_all_configs *)

Perms(S) ==
    { s \in [1 .. Cardinality(S) -> S] :
        \A i, j \in 1 .. Cardinality(S) : i # j => s[i] # s[j] }

\* sorted(...) of line 72
SortPaths(files) == SortSeq(files, LAMBDA x, y : x < y)

\* the suffix taken from count instead of count + 1
RenamedNameOffByOne(original_name, count) ==
    StrVal(Str(original_name) \o "-" \o ToString(count))

\* f"{original_name}-{count + 1}" of line 97
RenamedName(original_name, count) ==
    StrVal(Str(original_name) \o "-" \o ToString(count + 1))

\* run() re-raises what escapes its try block (lines 279-281)
Fail(exc) ==
    /\ pc' = "failed"
    /\ raised' = exc

LoaderFrame ==
    UNCHANGED <<fs_config, ti, attempts, report_files, failures, pulls, last_pull,
                containers_run, env_vars, reports_dir, dir_at_combine, ai, combined,
                skip_warnings, parse_errors, merged_log, combine_calls, writes,
                notes, in_name, in_config, running, summary>>

\* lines 72-78: rglob lists the files in some order, sorted() orders them
Discover ==
    /\ pc = "start"
    /\ \E found \in Perms(DOMAIN fs_config) :
         yaml_files' = SortPaths(found)
    /\ IF DOMAIN fs_config = {}
       THEN Fail("FileNotFoundError") /\ UNCHANGED fi
       ELSE pc' = "load_file" /\ fi' = 1 /\ UNCHANGED raised
    /\ UNCHANGED <<di, combined_config, test_name_counts, collision_warnings>>
    /\ LoaderFrame

\* a file that cannot be read or parsed is skipped like one without tests
LoadConfigSkipping ==
    /\ pc = "load_file"
    /\ fi <= Len(yaml_files)
    /\ LET config == fs_config[yaml_files[fi]] IN
         CASE config.kind \in {"unreadable", "notests"} ->
                fi' = fi + 1 /\ UNCHANGED <<pc, di, raised>>
           [] OTHER ->
                pc' = "load_decl" /\ di' = 1 /\ UNCHANGED <<fi, raised>>
    /\ UNCHANGED <<yaml_files, combined_config, test_name_counts, collision_warnings>>
    /\ LoaderFrame

\* lines 80-85 with load_config (58-67): one iteration of the loop over the files
LoadConfig ==
    /\ pc = "load_file"
    /\ fi <= Len(yaml_files)
    /\ LET config == fs_config[yaml_files[fi]] IN
         CASE config.kind = "unreadable" ->
                Fail("ConfigError") /\ UNCHANGED <<fi, di>>
           [] config.kind = "notests" ->
                fi' = fi + 1 /\ UNCHANGED <<pc, di, raised>>
           [] OTHER ->
                pc' = "load_decl" /\ di' = 1 /\ UNCHANGED <<fi, raised>>
    /\ UNCHANGED <<yaml_files, combined_config, test_name_counts, collision_warnings>>
    /\ LoaderFrame

\* lines 87-105: one iteration of the loop over the declarations of a file
ProcessDecl ==
    /\ pc = "load_decl"
    /\ di <= Len(fs_config[yaml_files[fi]].tests)
    /\ LET yaml_file == yaml_files[fi]
           test_data == fs_config[yaml_file].tests[di]
           original_name == test_data.name
           count == Get(test_name_counts, original_name, 0)
           test_name == IF count > 0 THEN RenamedName(original_name, count)
                        ELSE original_name
           config == ConfigPut(test_data.config, SourceFileKey,
                               StrVal(PathStr(yaml_file)))
       IN /\ collision_warnings' =
                IF count > 0
                THEN Append(collision_warnings,
                            [name |-> original_name, renamed |-> test_name,
                             file |-> yaml_file])
                ELSE collision_warnings
          /\ test_name_counts' = Put(test_name_counts, original_name, count + 1)
          /\ combined_config' =
                OrderedPut(combined_config, test_name,
                           [image |-> test_data.image, config |-> config,
                            declared |-> <<yaml_file, di>>])
    /\ di' = di + 1
    /\ UNCHANGED <<pc, yaml_files, fi, raised>>
    /\ LoaderFrame

\* line 107: the declarations of the file are exhausted
FinishFile ==
    /\ pc = "load_decl"
    /\ di > Len(fs_config[yaml_files[fi]].tests)
    /\ pc' = "load_file"
    /\ fi' = fi + 1
    /\ UNCHANGED <<yaml_files, di, combined_config, test_name_counts,
                   collision_warnings, raised>>
    /\ LoaderFrame

\* line 109: return combined_config
ReturnManifest ==
    /\ pc = "load_file"
    /\ fi > Len(yaml_files)
    /\ pc' = "loaded"
    /\ UNCHANGED <<yaml_files, fi, di, combined_config, test_name_counts,
                   collision_warnings, raised>>
    /\ LoaderFrame

-----------------------------------------------------------------------------
(* run_test: the environment projection of lines 134-143 *)

\* the image key projected like any other key
RECURSIVE ProjectItemsWithImage(_, _, _)
ProjectItemsWithImage(env, test_config, n) ==
    IF n = 0 THEN env
    ELSE LET before == ProjectItemsWithImage(env, test_config, n - 1)
             key == test_config[n][1]
             value == test_config[n][2]
         IN IF key = SourceFileKey
            THEN Put(before, "SPECIAL_SOURCE_FILE", Str(value))
            ELSE Put(before, "TEST_" \o KeyStr(Upper(key)), Str(value))

\* the loop of lines 139-143 over the first n items of test_config
RECURSIVE ProjectItems(_, _, _)
ProjectItems(env, test_config, n) ==
    IF n = 0 THEN env
    ELSE LET before == ProjectItems(env, test_config, n - 1)
             key == test_config[n][1]
             value == test_config[n][2]
         IN IF key = SourceFileKey
            THEN Put(before, "SPECIAL_SOURCE_FILE", Str(value))
            ELSE IF key # ImageKey
                 THEN Put(before, "TEST_" \o KeyStr(Upper(key)), Str(value))
                 ELSE before

EnvVars(test_name, test_config) ==
    LET env == Put(EmptyDict, "TS_NAME", test_name)
    IN IF test_config # <<>>
       THEN ProjectItems(env, test_config, Len(test_config))
       ELSE env

-----------------------------------------------------------------------------
(* run: the loop over the manifest, with run_test and pull_image *)

\* what a container leaves under its report name in the shared directory
\* a suite of an artifact, with its four counters
Suite(file, t, f, e, k) ==
    [artifact |-> file, tests |-> t, failures |-> f, errors |-> e, skipped |-> k]

Junit(file) == [kind |-> "junit", suites |-> <<Suite(file, 7, 3, 2, 1)>>]
Corrupt == [kind |-> "corrupt", suites |-> <<>>]
ArtifactEffects == {"none", "junit", "corrupt"}

Written(dir, file, effect) ==
    CASE effect = "junit" -> Put(dir, file, Junit(file))
      [] effect = "corrupt" -> Put(dir, file, Corrupt)
      [] OTHER -> dir

RunFrame ==
    UNCHANGED <<fs_config, yaml_files, fi, di, combined_config, test_name_counts,
                collision_warnings, dir_at_combine, ai, combined, skip_warnings,
                parse_errors, merged_log, combine_calls, writes, in_name,
                in_config, summary>>

\* an empty manifest treated as an error
CheckTestsRaising ==
    /\ pc = "loaded"
    /\ IF combined_config = <<>>
       THEN /\ Fail("ValueError")
            /\ UNCHANGED <<ti, notes>>
       ELSE /\ pc' = "loop"
            /\ ti' = 1
            /\ UNCHANGED <<notes, raised>>
    /\ UNCHANGED <<attempts, report_files, failures, pulls, last_pull,
                   containers_run, env_vars, running, reports_dir>>
    /\ RunFrame

\* line 247 has returned the manifest
AtCheckTests == pc = "loaded"

\* line 258: the loop has an entry left, or has none
AtNextTest == pc = "loop" /\ ti <= Len(combined_config)

AtEndLoop == pc = "loop" /\ ti > Len(combined_config)

\* lines 249-257
CheckTests ==
    /\ AtCheckTests
    /\ IF combined_config = <<>>
       THEN /\ pc' = "done"
            /\ notes' = notes \cup {"No tests found in configuration"}
            /\ UNCHANGED ti
       ELSE /\ pc' = "loop"
            /\ ti' = 1
            /\ UNCHANGED notes
    /\ UNCHANGED <<attempts, report_files, failures, pulls, last_pull,
                   containers_run, env_vars, running, reports_dir, raised>>
    /\ RunFrame

\* the ValueError of a missing image escapes the loop
StartTestEscaping ==
    /\ pc = "loop"
    /\ ti <= Len(combined_config)
    /\ LET test_name == combined_config[ti].name
           test_image == combined_config[ti].data.image
       IN /\ attempts' = Append(attempts, test_name)
          /\ IF test_image = ""
             THEN Fail("ValueError")
             ELSE pc' = "pull" /\ UNCHANGED raised
    /\ UNCHANGED <<failures, ti, report_files, pulls, last_pull, containers_run,
                   env_vars, running, reports_dir, notes>>
    /\ RunFrame

\* lines 258-262 and 124-126, with the handler of lines 264-265
StartTest ==
    /\ AtNextTest
    /\ LET test_name == combined_config[ti].name
           test_image == combined_config[ti].data.image
       IN /\ attempts' = Append(attempts, test_name)
          /\ IF test_image = ""
             THEN /\ failures' = Append(failures, test_name)
                  /\ ti' = ti + 1
                  /\ UNCHANGED pc
             ELSE /\ pc' = "pull"
                  /\ UNCHANGED <<failures, ti>>
    /\ UNCHANGED <<report_files, pulls, last_pull, containers_run, env_vars, running,
                   reports_dir, notes, raised>>
    /\ RunFrame

\* an error other than ImageNotFound leaves pull_image and run_test
PullImageRaising ==
    /\ pc = "pull"
    /\ pulls' = Append(pulls, [name |-> combined_config[ti].name,
                               image |-> combined_config[ti].data.image])
    /\ \E outcome \in {"pulled", "ImageNotFound", "Exception"} :
         IF outcome = "Exception"
         THEN /\ failures' = Append(failures, combined_config[ti].name)
              /\ ti' = ti + 1
              /\ pc' = "loop"
              /\ UNCHANGED last_pull
         ELSE /\ last_pull' = outcome
              /\ pc' = "container"
              /\ UNCHANGED <<failures, ti>>
    /\ UNCHANGED <<attempts, report_files, containers_run, env_vars, running,
                   reports_dir, notes, raised>>
    /\ RunFrame

\* line 131, pull_image (111-120): every outcome is only printed
PullImage ==
    /\ pc = "pull"
    /\ \E outcome \in {"pulled", "ImageNotFound", "Exception"} :
         /\ pulls' = Append(pulls, [name |-> combined_config[ti].name,
                                    image |-> combined_config[ti].data.image])
         /\ last_pull' = outcome
    /\ pc' = "container"
    /\ UNCHANGED <<ti, attempts, report_files, failures, containers_run, env_vars, running,
                   reports_dir, notes, raised>>
    /\ RunFrame

\* detach=True: containers.run returns while the container executes
StartContainerDetached ==
    /\ pc = "container"
    /\ LET test_name == combined_config[ti].name
           test_config == combined_config[ti].data.config
       IN /\ env_vars' = EnvVars(test_name, test_config)
          /\ running' = running \cup {test_name}
          /\ containers_run' = Append(containers_run,
                                      [name |-> test_name, returned |-> TRUE])
    /\ pc' = "check_report"
    /\ UNCHANGED <<ti, attempts, report_files, failures, pulls, last_pull,
                   reports_dir, notes, raised>>
    /\ RunFrame

\* lines 134-157: the environment is built and the container is started
StartContainer ==
    /\ pc = "container"
    /\ LET test_name == combined_config[ti].name
           test_config == combined_config[ti].data.config
       IN /\ env_vars' = EnvVars(test_name, test_config)
          /\ running' = running \cup {test_name}
    /\ pc' = "container_wait"
    /\ UNCHANGED <<ti, attempts, report_files, failures, pulls, last_pull,
                   containers_run, reports_dir, notes, raised>>
    /\ RunFrame

\* the re-raised container error escapes the loop
RunContainerEscaping ==
    /\ pc = "container_wait"
    /\ LET test_name == combined_config[ti].name
       IN /\ running' = running \ {test_name}
          /\ \E effect \in ArtifactEffects :
               reports_dir' = Written(reports_dir, ReportFile(test_name), effect)
          /\ \E result \in {"returned", "ContainerError", "Exception"} :
               /\ containers_run' =
                    Append(containers_run,
                           [name |-> test_name,
                            returned |-> (result = "returned")])
               /\ IF result = "returned"
                  THEN pc' = "check_report" /\ UNCHANGED raised
                  ELSE Fail(result)
    /\ last_pull' = ""
    /\ UNCHANGED <<failures, ti, attempts, report_files, pulls, env_vars, notes>>
    /\ RunFrame

\* lines 157-166 and 187-193, with the handler of lines 264-265: the call
\* blocks (detach=False) until the container has run to its end and written
\* what it writes, and then returns or raises
RunContainer ==
    /\ pc = "container_wait"
    /\ LET test_name == combined_config[ti].name
       IN /\ running' = running \ {test_name}
          /\ \E effect \in ArtifactEffects :
               reports_dir' = Written(reports_dir, ReportFile(test_name), effect)
          /\ \E result \in {"returned", "ContainerError", "Exception"} :
               /\ containers_run' =
                    Append(containers_run,
                           [name |-> test_name,
                            returned |-> (result = "returned")])
               /\ IF result = "returned"
                  THEN /\ pc' = "check_report"
                       /\ UNCHANGED <<failures, ti>>
                  ELSE /\ failures' = Append(failures, test_name)
                       /\ ti' = ti + 1
                       /\ pc' = "loop"
    /\ last_pull' = ""
    /\ UNCHANGED <<attempts, report_files, pulls, env_vars, notes, raised>>
    /\ RunFrame

\* an absent artifact raises, and the handler of line 264 records a failure
CheckReportRaising ==
    /\ pc = "check_report"
    /\ LET test_name == combined_config[ti].name IN
         IF ReportFile(test_name) \in DOMAIN reports_dir
         THEN /\ report_files' = Append(report_files, ReportFile(test_name))
              /\ UNCHANGED failures
         ELSE /\ failures' = Append(failures, test_name)
              /\ UNCHANGED report_files
    /\ ti' = ti + 1
    /\ pc' = "loop"
    /\ UNCHANGED <<attempts, pulls, last_pull, containers_run, env_vars, running,
                   reports_dir, notes, raised>>
    /\ RunFrame

\* lines 168-185 and 263: the presence check only prints; the name is returned
\* and appended
CheckReport ==
    /\ pc = "check_report"
    /\ report_files' = Append(report_files, ReportFile(combined_config[ti].name))
    /\ ti' = ti + 1
    /\ pc' = "loop"
    /\ UNCHANGED <<attempts, failures, pulls, last_pull, containers_run, env_vars, running,
                   reports_dir, notes, raised>>
    /\ RunFrame

\* the loop of line 258 is exhausted
EndLoop ==
    /\ AtEndLoop
    /\ pc' = "settle"
    /\ UNCHANGED <<ti, attempts, report_files, failures, pulls, last_pull,
                   containers_run, env_vars, running, reports_dir, notes, raised>>
    /\ RunFrame

-----------------------------------------------------------------------------
(* run: the settle delay, and combine_reports *)

AggregateFrame ==
    UNCHANGED <<fs_config, yaml_files, fi, di, combined_config, test_name_counts,
                collision_warnings, ti, attempts, report_files, failures, pulls,
                last_pull, containers_run, env_vars, in_name, in_config,
                running>>

\* combine_reports called whether or not there is a report
SettleAlwaysCombining ==
    /\ pc = "settle"
    /\ pc' = "combine"
    /\ combine_calls' = combine_calls + 1
    /\ dir_at_combine' = reports_dir
    /\ combined' = <<>>
    /\ ai' = 1
    /\ UNCHANGED <<notes, reports_dir, skip_warnings, parse_errors, merged_log,
                   writes, summary, raised>>
    /\ AggregateFrame

\* lines 268-273 and 197-199, then 275-277 when there is nothing to combine
Settle ==
    /\ pc = "settle"
    /\ IF report_files # <<>>
       THEN /\ pc' = "combine"
            /\ combine_calls' = combine_calls + 1
            /\ dir_at_combine' = reports_dir
            /\ combined' = <<>>
            /\ ai' = 1
            /\ UNCHANGED notes
       ELSE /\ pc' = "done"
            /\ notes' = notes \cup {"No reports to combine"}
            /\ UNCHANGED <<combine_calls, dir_at_combine, combined, ai>>
    /\ UNCHANGED <<reports_dir, skip_warnings, parse_errors, merged_log, writes, summary,
                   raised>>
    /\ AggregateFrame

\* an absent file ends the loop (break for continue)
CombineOneBreaking ==
    /\ pc = "combine"
    /\ ai <= Len(report_files)
    /\ LET report_file == report_files[ai] IN
         IF report_file \notin DOMAIN reports_dir
         THEN /\ skip_warnings' = Append(skip_warnings, report_file)
              /\ ai' = Len(report_files) + 1
              /\ UNCHANGED <<combined, merged_log, reports_dir, parse_errors>>
         ELSE IF reports_dir[report_file].kind # "junit"
              THEN /\ parse_errors' = Append(parse_errors, report_file)
                   /\ ai' = ai + 1
                   /\ UNCHANGED <<combined, merged_log, reports_dir, skip_warnings>>
              ELSE /\ combined' = combined \o reports_dir[report_file].suites
                   /\ merged_log' = Append(merged_log, report_file)
                   /\ reports_dir' = Remove(reports_dir, report_file)
                   /\ ai' = ai + 1
                   /\ UNCHANGED <<skip_warnings, parse_errors>>
    /\ UNCHANGED <<pc, dir_at_combine, combine_calls, writes, summary, notes, raised>>
    /\ AggregateFrame

\* the unlink in a finally clause: an unparseable file is deleted too
CombineOneUnlinkingAlways ==
    /\ pc = "combine"
    /\ ai <= Len(report_files)
    /\ LET report_file == report_files[ai] IN
         IF report_file \notin DOMAIN reports_dir
         THEN /\ skip_warnings' = Append(skip_warnings, report_file)
              /\ UNCHANGED <<combined, merged_log, reports_dir, parse_errors>>
         ELSE IF reports_dir[report_file].kind # "junit"
              THEN /\ parse_errors' = Append(parse_errors, report_file)
                   /\ reports_dir' = Remove(reports_dir, report_file)
                   /\ UNCHANGED <<combined, merged_log, skip_warnings>>
              ELSE /\ combined' = combined \o reports_dir[report_file].suites
                   /\ merged_log' = Append(merged_log, report_file)
                   /\ reports_dir' = Remove(reports_dir, report_file)
                   /\ UNCHANGED <<skip_warnings, parse_errors>>
    /\ ai' = ai + 1
    /\ UNCHANGED <<pc, dir_at_combine, combine_calls, writes, summary, notes, raised>>
    /\ AggregateFrame

\* the merged file is left in place
CombineOneKeeping ==
    /\ pc = "combine"
    /\ ai <= Len(report_files)
    /\ LET report_file == report_files[ai] IN
         IF report_file \notin DOMAIN reports_dir
         THEN /\ skip_warnings' = Append(skip_warnings, report_file)
              /\ UNCHANGED <<combined, merged_log, parse_errors>>
         ELSE IF reports_dir[report_file].kind # "junit"
              THEN /\ parse_errors' = Append(parse_errors, report_file)
                   /\ UNCHANGED <<combined, merged_log, skip_warnings>>
              ELSE /\ combined' = combined \o reports_dir[report_file].suites
                   /\ merged_log' = Append(merged_log, report_file)
                   /\ UNCHANGED <<skip_warnings, parse_errors>>
    /\ ai' = ai + 1
    /\ UNCHANGED <<pc, reports_dir, dir_at_combine, combine_calls, writes, summary,
                   notes, raised>>
    /\ AggregateFrame

\* line 202: the loop has an artifact left, or has none
AtNextReport == pc = "combine" /\ ai <= Len(report_files)

AtWrite == pc = "combine" /\ ai > Len(report_files)

\* lines 202-222: one iteration of the loop over report_files
CombineOne ==
    /\ AtNextReport
    /\ LET report_file == report_files[ai] IN
         IF report_file \notin DOMAIN reports_dir
         THEN /\ skip_warnings' = Append(skip_warnings, report_file)
              /\ UNCHANGED <<combined, merged_log, reports_dir, parse_errors>>
         ELSE IF reports_dir[report_file].kind # "junit"
              THEN /\ parse_errors' = Append(parse_errors, report_file)
                   /\ UNCHANGED <<combined, merged_log, reports_dir, skip_warnings>>
              ELSE /\ combined' = combined \o reports_dir[report_file].suites
                   /\ merged_log' = Append(merged_log, report_file)
                   /\ reports_dir' = Remove(reports_dir, report_file)
                   /\ UNCHANGED <<skip_warnings, parse_errors>>
    /\ ai' = ai + 1
    /\ UNCHANGED <<pc, dir_at_combine, combine_calls, writes, summary, notes, raised>>
    /\ AggregateFrame

\* the sum of a counter over the suites of the accumulator
RECURSIVE Total(_, _)
Total(suites, counter) ==
    IF suites = <<>> THEN 0
    ELSE suites[1][counter] + Total(Tail(suites), counter)

\* the errors and the skipped counters read from each other's attribute
SummarySwapped(suites) ==
    [total_tests |-> Total(suites, "tests"),
     total_failures |-> Total(suites, "failures"),
     total_skipped |-> Total(suites, "errors"),
     total_errors |-> Total(suites, "skipped")]

\* lines 228-231: combined.tests, .failures, .skipped and .errors
Summary(suites) ==
    [total_tests |-> Total(suites, "tests"),
     total_failures |-> Total(suites, "failures"),
     total_skipped |-> Total(suites, "skipped"),
     total_errors |-> Total(suites, "errors")]

\* an accumulator without suites is not written
WriteCombinedSkippingEmpty ==
    /\ AtWrite
    /\ IF combined = <<>>
       THEN UNCHANGED <<reports_dir, writes>>
       ELSE /\ reports_dir' = Put(reports_dir, CombinedReportName,
                                  [kind |-> "junit", suites |-> combined])
            /\ writes' = writes + 1
    /\ summary' = Summary(combined)
    /\ pc' = "done"
    /\ UNCHANGED <<dir_at_combine, ai, combined, skip_warnings, parse_errors,
                   merged_log, combine_calls, notes, raised>>
    /\ AggregateFrame

\* lines 224-235, then 275-277
WriteCombined ==
    /\ AtWrite
    /\ reports_dir' = Put(reports_dir, CombinedReportName,
                          [kind |-> "junit", suites |-> combined])
    /\ writes' = writes + 1
    /\ summary' = Summary(combined)
    /\ pc' = "done"
    /\ UNCHANGED <<dir_at_combine, ai, combined, skip_warnings, parse_errors,
                   merged_log, combine_calls, notes, raised>>
    /\ AggregateFrame

-----------------------------------------------------------------------------
(* run() *)

Next ==
    \/ Discover
    \/ LoadConfig
    \/ ProcessDecl
    \/ FinishFile
    \/ ReturnManifest
    \/ CheckTests
    \/ StartTest
    \/ PullImage
    \/ StartContainer
    \/ RunContainer
    \/ CheckReport
    \/ EndLoop
    \/ Settle
    \/ CombineOne
    \/ WriteCombined

Spec == Init /\ [][Next]_vars

-----------------------------------------------------------------------------
(* run_test on its own inputs: any name, any configuration mapping *)

EnvKeys ==
    { SourceFileKey, ImageKey, RetriesKey,
      <<"R","e","t","r","i","e","s">>,
      <<"S","O","U","R","C","E","_","F","I","L","E">>,
      <<"I","m","a","g","e">> }

EnvValues == { IntVal(3), BoolVal(TRUE), StrVal("a.yaml") }

\* the mappings of at most MaxKeys items: a dict holds a key once
EnvConfigs ==
    UNION { { c \in [1 .. n -> EnvKeys \X EnvValues] :
                \A i, j \in 1 .. n : i # j => c[i][1] # c[j][1] } :
            n \in 0 .. MaxKeys }

EnvInit ==
    /\ pc = "env_start"
    /\ fs_config = <<>>
    /\ in_name \in {StrVal("a"), StrVal("a-2")}
    /\ in_config \in EnvConfigs
    /\ Quiet

\* lines 134-143 for test_name = in_name and test_config = in_config
ProjectEnv ==
    /\ pc = "env_start"
    /\ env_vars' = EnvVars(in_name, in_config)
    /\ pc' = "env_done"
    /\ UNCHANGED <<fs_config, yaml_files, fi, di, combined_config, test_name_counts,
                   collision_warnings, ti, attempts, report_files, failures, pulls,
                   last_pull, containers_run, reports_dir, dir_at_combine, ai,
                   combined, skip_warnings, parse_errors, merged_log, combine_calls,
                   writes, notes, raised, in_name, in_config, running, summary>>

EnvNext == ProjectEnv

EnvSpec == EnvInit /\ [][EnvNext]_vars

-----------------------------------------------------------------------------
(* Properties of load_all_configs *)

LoaderPcs == {"start", "load_file", "load_decl"}

ManifestReturned ==
    pc \in {"loaded", "loop", "pull", "container", "container_wait",
            "check_report", "settle", "combine", "done"}

\* every declaration of every source, as <<path, index in the source>>
AllDeclarations ==
    UNION { { <<p, j>> : j \in DOMAIN fs_config[p].tests } : p \in DOMAIN fs_config }

DeclName(d) == fs_config[d[1]].tests[d[2]].name

\* C1: once load_all_configs has returned, every declaration of every source
\* is in the manifest under its own entry, and the manifest has as many
\* entries as the sources have declarations.
C1_NoDeclarationLost ==
    ManifestReturned =>
        /\ Len(combined_config) = Cardinality(AllDeclarations)
        /\ \A d \in AllDeclarations :
             \E i \in DOMAIN combined_config : combined_config[i].data.declared = d

\* the declarations of name n that sorted path order puts before <<p, j>>
SeenBefore(n, p, j) ==
    Cardinality({ d \in AllDeclarations :
                    /\ DeclName(d) = n
                    /\ d[1] < p \/ (d[1] = p /\ d[2] < j) })

SortedOrder ==
    pc # "start" /\ pc # "env_start" /\ pc # "env_done" =>
        /\ Range(yaml_files) = DOMAIN fs_config
        /\ \A i, j \in DOMAIN yaml_files : i < j => yaml_files[i] < yaml_files[j]

RenameRule ==
    pc = "load_decl" /\ di <= Len(fs_config[yaml_files[fi]].tests) =>
        LET p == yaml_files[fi]
            n == fs_config[p].tests[di].name
            k == SeenBefore(n, p, di)
            target == IF k = 0 THEN n ELSE StrVal(Str(n) \o "-" \o ToString(k + 1))
        IN /\ \E i \in DOMAIN combined_config' :
                /\ combined_config'[i].name = target
                /\ combined_config'[i].data.declared = <<p, di>>
           /\ Len(collision_warnings') =
                Len(collision_warnings) + (IF k >= 1 THEN 1 ELSE 0)
           /\ pc' # "failed"

\* C2: the sources are processed in sorted path order; the step that processes a
\* declaration of name n stores it under n when no declaration of n came before
\* it, and under n-(k+1) when k >= 1 did, with one more warning and no abort.
C2_RenameRule == [](SortedOrder) /\ [][RenameRule]_vars

\* a third declaration of "a" has been stored as a-3 after two warnings
C2_Witness ==
    /\ Len(collision_warnings) >= 2
    /\ \E i \in DOMAIN combined_config :
         /\ combined_config[i].name = StrVal("a-3")
         /\ DeclName(combined_config[i].data.declared) = StrVal("a")

-----------------------------------------------------------------------------
(* Properties of run and combine_reports *)

LoopOver == pc \in {"settle", "combine", "done"}

\* the container calls that returned, in call order
ReturnedRuns == SelectSeq(containers_run, LAMBDA r : r.returned)

MissingImage(i) == combined_config[i].data.image = ""

\* C3: no per-test failure stops the loop.  After the loop every manifest entry
\* has been attempted exactly once, in order; each attempt has exactly one
\* outcome, an artifact name or a logged failure; a test without image is a
\* logged failure with no container run; and report_files, the list handed to
\* combine_reports, holds exactly the artifact names of the tests whose
\* container call returned.
C3_LoopNeverStops ==
    /\ attempts # <<>> => pc # "failed"
    /\ LoopOver =>
         /\ attempts = Names(combined_config)
         /\ report_files =
              [i \in DOMAIN ReturnedRuns |-> ReportFile(ReturnedRuns[i].name)]
         /\ Len(report_files) + Len(failures) = Len(attempts)
         /\ \A i \in DOMAIN combined_config :
              LET n == combined_config[i].name IN
                /\ (ReportFile(n) \in Range(report_files)) # (n \in Range(failures))
                /\ MissingImage(i) =>
                     /\ n \in Range(failures)
                     /\ \A r \in Range(containers_run) : r.name # n
         /\ pc = "done" /\ combine_calls = 1 =>
              Len(merged_log) + Len(skip_warnings) + Len(parse_errors)
                = Len(ReturnedRuns)

\* three tests, one of them without image: the other two ran, and the combined
\* report was built from their two artifacts
C3_Witness ==
    /\ pc = "done"
    /\ Len(combined_config) = 3
    /\ \E i \in DOMAIN combined_config : MissingImage(i)
    /\ Len(failures) = 1
    /\ Len(containers_run) = 2
    /\ Len(combined) = 2
    /\ writes = 1

\* the suites of the parseable files among `files`, in order
RECURSIVE SuitesOf(_, _)
SuitesOf(files, dir) ==
    IF files = <<>> THEN <<>>
    ELSE LET f == Head(files)
         IN (IF f \in DOMAIN dir /\ dir[f].kind = "junit" THEN dir[f].suites
             ELSE <<>>) \o SuitesOf(Tail(files), dir)

AbsentAtCombine(f) == f \notin DOMAIN dir_at_combine

UnparseableAtCombine(f) ==
    f \in DOMAIN dir_at_combine /\ dir_at_combine[f].kind # "junit"

Combined == pc = "done" /\ combine_calls > 0

\* C4: combine_reports does not raise because of an artifact.  When it has
\* returned, each absent name has exactly one warning, each unparseable file
\* one logged error, every artifact of the list has been processed, and the
\* combined report holds exactly the suites of the present, parseable files.
C4_CombineSkips ==
    /\ combine_calls > 0 => pc # "failed"
    /\ Combined =>
         /\ skip_warnings = SelectSeq(report_files, AbsentAtCombine)
         /\ parse_errors = SelectSeq(report_files, UnparseableAtCombine)
         /\ ai = Len(report_files) + 1
         /\ combined = SuitesOf(report_files, dir_at_combine)
         /\ reports_dir[CombinedReportName].suites = combined

\* the first artifact of the list was absent, a later one unparseable, and a
\* later one still was merged
C4_Witness ==
    /\ Combined
    /\ Len(report_files) = 3
    /\ skip_warnings = <<report_files[1]>>
    /\ parse_errors = <<report_files[2]>>
    /\ merged_log = <<report_files[3]>>

\* C5: when combine_reports has returned, a listed artifact has been deleted if
\* and only if it was merged; a merged one no longer exists; an absent or
\* unparseable one is as combine_reports found it and has no suite in the
\* combined report.
C5_DeletedIffMerged ==
    Combined =>
        \A f \in Range(report_files) :
            LET merged == f \in Range(merged_log)
                deleted == f \in DOMAIN dir_at_combine /\ f \notin DOMAIN reports_dir
            IN /\ deleted <=> merged
               /\ merged => f \notin DOMAIN reports_dir
               /\ AbsentAtCombine(f) \/ UnparseableAtCombine(f) =>
                    /\ ~merged
                    /\ f \in DOMAIN reports_dir <=> f \in DOMAIN dir_at_combine
                    /\ f \in DOMAIN reports_dir => reports_dir[f] = dir_at_combine[f]
                    /\ \A i \in DOMAIN combined : combined[i].artifact # f

\* one artifact was merged and deleted, an unparseable one is still there
C5_Witness ==
    /\ Combined
    /\ \E f, g \in Range(report_files) :
         /\ f \in Range(merged_log) /\ f \notin DOMAIN reports_dir
         /\ g \in Range(parse_errors) /\ g \in DOMAIN reports_dir

FailsOnlyInLoader == pc' = "failed" /\ pc # "failed" => pc \in LoaderPcs

\* the steps run has left at most, once the manifest is there
StepsLeft ==
    LET n == Len(combined_config)
        afterLoop == n + 3
        test == afterLoop + 5 * (n + 1 - ti)
    IN CASE pc = "done" -> 0
         [] pc = "combine" -> Len(report_files) + 2 - ai
         [] pc = "settle" -> afterLoop
         [] pc = "loop" -> test + 1
         [] pc = "pull" -> test
         [] pc = "container" -> test - 1
         [] pc = "container_wait" -> test - 2
         [] pc = "check_report" -> test - 3
         [] OTHER -> afterLoop + 5 * n + 2

\* a step of run is possible: the guard of one of its actions holds
CanStep ==
    \/ AtCheckTests
    \/ AtNextTest
    \/ pc \in {"pull", "container", "container_wait", "check_report", "settle"}
    \/ AtEndLoop
    \/ AtNextReport
    \/ AtWrite

Progresses == ManifestReturned => StepsLeft' < StepsLeft /\ StepsLeft' >= 0

\* C6: run ends in Failed only from the loading of the manifest; once
\* load_all_configs has returned, whatever the tests and the artifacts do,
\* run never fails, never stops before Done, and every step brings it closer
\* to Done.
C6_NoFailureAfterLoad ==
    /\ [](ManifestReturned /\ pc # "done" => CanStep)
    /\ [][FailsOnlyInLoader /\ Progresses]_vars

\* a run that ended in Done with a failed test, an absent artifact and an
\* unparseable artifact
C6_Witness ==
    /\ pc = "done"
    /\ raised = ""
    /\ failures # <<>>
    /\ skip_warnings # <<>>
    /\ parse_errors # <<>>

Fatal ==
    \/ DOMAIN fs_config = {}
    \/ \E p \in DOMAIN fs_config : fs_config[p].kind = "unreadable"

NoCombinedReport == writes = 0 /\ CombinedReportName \notin DOMAIN reports_dir

\* C7: with no configuration file, or with a file that cannot be read or
\* parsed, run never leaves the loader except to fail: no image is pulled, no
\* container runs, no combined report is written, and the run does not stop
\* before it has failed.  Without such a file the run does not fail: a
\* document without tests is skipped.
C7_LoaderErrorsFatal ==
    /\ Fatal =>
         /\ pc \in LoaderPcs \cup {"failed"}
         /\ pc # "failed" => ENABLED Next
         /\ pulls = <<>> /\ containers_run = <<>> /\ NoCombinedReport
    /\ pc = "failed" => Fatal /\ raised # ""
    /\ ~Fatal => pc # "failed" /\ raised = ""

\* the run failed on an unreadable file after a file with tests had been merged
\* and a file without tests skipped
C7_Witness ==
    /\ pc = "failed"
    /\ combined_config # <<>>
    /\ \E p \in DOMAIN fs_config : fs_config[p].kind = "notests" /\ p < yaml_files[fi]

ZeroTests == ~Fatal /\ AllDeclarations = {}

\* C8: when the sources declare no test, run ends in Done without error,
\* having pulled nothing, run no container, not called combine_reports and
\* written no combined report.
C8_ZeroTests ==
    /\ ZeroTests =>
         /\ pc \in {"start", "load_file", "loaded", "done"}
         /\ pc # "done" => ENABLED Next
    /\ ManifestReturned /\ combined_config = <<>> =>
         /\ pc \in {"loaded", "done"}
         /\ raised = ""
         /\ attempts = <<>> /\ pulls = <<>> /\ containers_run = <<>>
         /\ combine_calls = 0
         /\ NoCombinedReport

\* a run over sources without tests has ended
C8_Witness ==
    /\ pc = "done"
    /\ Len(yaml_files) >= 2
    /\ combined_config = <<>>
    /\ "No tests found in configuration" \in notes

AllFailed ==
    /\ LoopOver
    /\ combined_config # <<>>
    /\ Len(failures) = Len(combined_config)

\* C9: when run_test raised for every manifest entry, combine_reports is not
\* called, no combined report is written, the condition is reported, and run
\* ends in Done.
C9_AllFailed ==
    AllFailed =>
        /\ pc \in {"settle", "done"}
        /\ combine_calls = 0
        /\ NoCombinedReport
        /\ raised = ""
        /\ pc = "done" => "No reports to combine" \in notes
        /\ pc = "settle" => ENABLED Next

\* two tests, one without image and one whose container failed; run is done
C9_Witness ==
    /\ pc = "done"
    /\ Len(combined_config) >= 2
    /\ Len(failures) = Len(combined_config)
    /\ containers_run # <<>>
    /\ \E i \in DOMAIN combined_config : MissingImage(i)

-----------------------------------------------------------------------------
(* Properties of the environment projection of run_test *)

Projected == pc = "env_done"

\* the items projected under the TEST_ prefix
Prefixed(i) == in_config[i][1] # SourceFileKey /\ in_config[i][1] # ImageKey

TestKey(i) == "TEST_" \o KeyStr(Upper(in_config[i][1]))

ExpectedKeys ==
    {"TS_NAME"}
      \cup { "SPECIAL_SOURCE_FILE" : i \in { j \in DOMAIN in_config :
                                               in_config[j][1] = SourceFileKey } }
      \cup { TestKey(i) : i \in { j \in DOMAIN in_config : Prefixed(j) } }

\* C10, as claimed: the environment has exactly the keys of the rule, every
\* prefixed key k has TEST_<UPPER(k)> = str(v), and TEST_SOURCE_FILE and
\* TEST_IMAGE are never keys of it.
C10_AsClaimed ==
    Projected =>
        /\ DOMAIN env_vars = ExpectedKeys
        /\ env_vars["TS_NAME"] = in_name
        /\ \A i \in DOMAIN in_config :
             /\ in_config[i][1] = SourceFileKey =>
                  env_vars["SPECIAL_SOURCE_FILE"] = Str(in_config[i][2])
             /\ Prefixed(i) => env_vars[TestKey(i)] = Str(in_config[i][2])
        /\ "TEST_SOURCE_FILE" \notin DOMAIN env_vars
        /\ "TEST_IMAGE" \notin DOMAIN env_vars

\* C10, amended: the environment has exactly the keys of the rule; the keys
\* source_file and image are matched exactly as spelled, so TEST_SOURCE_FILE
\* (TEST_IMAGE) is a key exactly when the mapping has another key whose upper
\* case is SOURCE_FILE (IMAGE); and when several keys have the same upper
\* case, TEST_<UPPER(k)> holds str(v) of the last of them in mapping order.
C10_EnvProjection ==
    Projected =>
        /\ DOMAIN env_vars = ExpectedKeys
        /\ env_vars["TS_NAME"] = in_name
        /\ \A i \in DOMAIN in_config :
             /\ in_config[i][1] = SourceFileKey =>
                  env_vars["SPECIAL_SOURCE_FILE"] = Str(in_config[i][2])
             /\ in_config[i][1] = ImageKey /\ TestKey(i) \in DOMAIN env_vars =>
                  \E j \in DOMAIN in_config : Prefixed(j) /\ TestKey(j) = TestKey(i)
             /\ Prefixed(i) =>
                  LET last == CHOOSE j \in DOMAIN in_config :
                                /\ Prefixed(j) /\ TestKey(j) = TestKey(i)
                                /\ \A m \in DOMAIN in_config :
                                     Prefixed(m) /\ TestKey(m) = TestKey(i) => m <= j
                  IN env_vars[TestKey(i)] = Str(in_config[last][2])
        /\ "TEST_SOURCE_FILE" \in DOMAIN env_vars <=>
             \E i \in DOMAIN in_config :
                /\ in_config[i][1] # SourceFileKey
                /\ Upper(in_config[i][1]) = Upper(SourceFileKey)
        /\ "TEST_IMAGE" \in DOMAIN env_vars <=>
             \E i \in DOMAIN in_config :
                /\ in_config[i][1] # ImageKey
                /\ Upper(in_config[i][1]) = Upper(ImageKey)

\* a mapping with the keys source_file and SOURCE_FILE has been projected
C10_Witness ==
    /\ Projected
    /\ \E i, j \in DOMAIN in_config :
         /\ in_config[i][1] = SourceFileKey
         /\ in_config[j][1] # SourceFileKey
         /\ Upper(in_config[j][1]) = Upper(SourceFileKey)
    /\ "SPECIAL_SOURCE_FILE" \in DOMAIN env_vars
    /\ "TEST_SOURCE_FILE" \in DOMAIN env_vars

-----------------------------------------------------------------------------
(* combine_reports on its own inputs: any list of distinct names, any      *)
(* directory, and a second call on the same list                           *)

ReportNames == { ReportFile(StrVal("t" \o ToString(i))) : i \in 1 .. MaxReports }

\* what a file of the directory may hold
Contents(file) ==
    { Corrupt,
      [kind |-> "junit", suites |-> <<>>],
      Junit(file),
      [kind |-> "junit",
       suites |-> <<Suite(file, 2, 0, 1, 1), Suite(file, 5, 4, 0, 0)>>] }

Directories ==
    UNION { { d \in [S -> UNION { Contents(f) : f \in S }] :
                \A f \in S : d[f] \in Contents(f) } : S \in SUBSET ReportNames }

\* run hands over distinct names: one per manifest entry
ReportLists ==
    UNION { { l \in [1 .. n -> ReportNames] :
                \A i, j \in 1 .. n : i # j => l[i] # l[j] } :
            n \in 0 .. MaxReports }

\* lines 195-199: combine_reports is entered with report_files
CombineInit ==
    /\ pc = "combine"
    /\ report_files \in ReportLists
    /\ reports_dir \in Directories
    /\ dir_at_combine = reports_dir
    /\ ai = 1
    /\ combine_calls = 1
    /\ combined = <<>>
    /\ fs_config = <<>>
    /\ yaml_files = <<>>
    /\ fi = 0
    /\ di = 0
    /\ combined_config = <<>>
    /\ test_name_counts = EmptyDict
    /\ collision_warnings = <<>>
    /\ ti = 0
    /\ attempts = <<>>
    /\ failures = <<>>
    /\ pulls = <<>>
    /\ last_pull = ""
    /\ containers_run = <<>>
    /\ env_vars = EmptyDict
    /\ running = {}
    /\ summary = EmptyDict
    /\ skip_warnings = <<>>
    /\ parse_errors = <<>>
    /\ merged_log = <<>>
    /\ writes = 0
    /\ notes = {}
    /\ raised = ""
    /\ in_name = ""
    /\ in_config = <<>>

\* lines 195-199 again: a second call on the same list, nothing written to
\* the directory in between; the logs of the first call are kept apart
CombineAgain ==
    /\ pc = "done"
    /\ combine_calls = 1
    /\ pc' = "combine"
    /\ combine_calls' = combine_calls + 1
    /\ dir_at_combine' = reports_dir
    /\ combined' = <<>>
    /\ ai' = 1
    /\ UNCHANGED <<reports_dir, skip_warnings, parse_errors, merged_log, writes,
                   summary, notes, raised>>
    /\ AggregateFrame

CombineNext ==
    \/ CombineOne
    \/ WriteCombined
    \/ CombineAgain

CombineSpec == CombineInit /\ [][CombineNext]_vars

-----------------------------------------------------------------------------
(* properties of combine_reports on its own inputs                         *)

CombinedAgain == pc = "done" /\ combine_calls = 2

Occurrences(seq, x) == Cardinality({ i \in DOMAIN seq : seq[i] = x })

\* C11: when a second combine_reports call on the same list has returned, with
\* nothing written in between, every artifact merged by the first call was
\* absent for the second and has one warning from it, the second call merged
\* nothing, its report holds no suite of a merged artifact, and the report is
\* empty when the first call merged every artifact of the list.
C11_SecondCallFindsNone ==
    CombinedAgain =>
        /\ \A f \in Range(merged_log) :
             /\ AbsentAtCombine(f)
             /\ Occurrences(merged_log, f) = 1
             /\ Occurrences(skip_warnings, f) = 1
             /\ \A i \in DOMAIN combined : combined[i].artifact # f
        /\ reports_dir[CombinedReportName].suites = combined
        /\ Range(merged_log) = Range(report_files) =>
             /\ combined = <<>>
             /\ skip_warnings = report_files

\* the first call merged both artifacts of a list of two with suites, and the
\* second call has returned with an empty report
C11_Witness ==
    /\ CombinedAgain
    /\ Len(report_files) = 2
    /\ merged_log = report_files
    /\ combined = <<>>
    /\ skip_warnings = report_files
    /\ reports_dir[CombinedReportName].suites = <<>>

\* the sum of a function of numbers over its finite domain
RECURSIVE SumFn(_)
SumFn(fn) ==
    IF DOMAIN fn = {} THEN 0
    ELSE LET x == CHOOSE y \in DOMAIN fn : TRUE
         IN fn[x] + SumFn([y \in DOMAIN fn \ {x} |-> fn[y]])

\* the artifacts the call that has just returned merged: those it deleted
MergedByCall ==
    { f \in Range(report_files) :
        f \in DOMAIN dir_at_combine /\ f \notin DOMAIN reports_dir }

\* a counter summed over the suites the merged artifacts held
MergedSum(counter) ==
    SumFn([f \in MergedByCall |->
             SumFn([i \in DOMAIN dir_at_combine[f].suites |->
                      dir_at_combine[f].suites[i][counter]])])

\* C12: when combine_reports has returned, each of the four counters of its
\* summary is the sum of that counter over the suites of exactly the artifacts
\* the call merged; an artifact it skipped as absent or unparseable adds
\* nothing, and a call that merged nothing reports four zeros.
C12_CountersSumMerged ==
    pc = "done" =>
        /\ combine_calls = 1 => MergedByCall = Range(merged_log)
        /\ combine_calls = 2 => MergedByCall = {}
        /\ MergedByCall \cap (Range(parse_errors) \cup
                              { f \in Range(report_files) : AbsentAtCombine(f) }) = {}
        /\ DOMAIN summary =
             {"total_tests", "total_failures", "total_errors", "total_skipped"}
        /\ summary["total_tests"] = MergedSum("tests")
        /\ summary["total_failures"] = MergedSum("failures")
        /\ summary["total_errors"] = MergedSum("errors")
        /\ summary["total_skipped"] = MergedSum("skipped")

\* two artifacts holding three suites were merged and a third one skipped; the
\* four counters differ
C12_Witness ==
    /\ pc = "done"
    /\ combine_calls = 1
    /\ Len(merged_log) = 2
    /\ Len(combined) = 3
    /\ Len(skip_warnings) + Len(parse_errors) = 1
    /\ summary["total_tests"] > summary["total_failures"]
    /\ summary["total_failures"] > summary["total_errors"]
    /\ summary["total_errors"] > summary["total_skipped"]
    /\ summary["total_skipped"] > 0

-----------------------------------------------------------------------------
(* properties of run, continued                                            *)

\* the test whose container has returned and whose name run_test has not
\* returned yet
BeingChecked(i) == pc = "check_report" /\ i = Len(containers_run)

ReturnedIsListed ==
    \A i \in DOMAIN containers_run :
        containers_run[i].returned /\ ~BeingChecked(i) =>
            /\ ReportFile(containers_run[i].name) \in Range(report_files)
            /\ containers_run[i].name \notin Range(failures)

AbsenceLeftToCombine ==
    /\ combine_calls = 0 => skip_warnings = <<>>
    /\ Combined =>
         \A f \in Range(report_files) :
             AbsentAtCombine(f) =>
                 /\ f \in Range(skip_warnings)
                 /\ f \notin Range(merged_log) \cup Range(parse_errors)

ChecksAndReturns ==
    pc = "check_report" /\ pc' # pc =>
        /\ report_files' = Append(report_files, ReportFile(combined_config[ti].name))
        /\ failures' = failures
        /\ reports_dir' = reports_dir
        /\ pc' = "loop"

OneAtATime ==
    /\ Cardinality(running) <= 1
    /\ running # {} =>
         /\ pc = "container_wait"
         /\ running = {combined_config[ti].name}

\* when a test is started or executes, every earlier test whose container
\* returned has had its presence check and its name listed
ChecksBeforeNextTest ==
    pc \in {"loop", "pull", "container", "container_wait"} =>
        /\ Len(report_files) = Len(ReturnedRuns)
        /\ \A i \in DOMAIN report_files :
             report_files[i] = ReportFile(ReturnedRuns[i].name)

\* the settle delay and the aggregation come after the last attempt
AggregationAfterLoop ==
    LoopOver /\ ~ZeroTests =>
        /\ attempts = Names(combined_config)
        /\ ti = Len(combined_config) + 1
        /\ running = {}

\* a step of the aggregator: an artifact is examined, merged or deleted, or
\* the combined report is written
AggregatorStep ==
    \/ ai' # ai
    \/ combined' # combined
    \/ merged_log' # merged_log
    \/ writes' # writes
    \/ \E f \in DOMAIN reports_dir : f \notin DOMAIN reports_dir'

AggregatorAlone ==
    AggregatorStep =>
        /\ running = {} /\ running' = {}
        /\ combine_calls' > 0
        /\ attempts = Names(combined_config)

\* C14: execution is sequential and in phases.  At most one container executes
\* at any time, and only inside the run_test call of its test; when a test is
\* started every earlier returned test has had its presence check; the settle
\* delay and the aggregation begin only when every manifest entry has been
\* attempted; and no step of the aggregator is taken while a test executes.
C14_SequentialPhases ==
    /\ [](OneAtATime /\ ChecksBeforeNextTest /\ AggregationAfterLoop)
    /\ [][AggregatorAlone]_vars

\* the container of the third test executes; the first two tests have
\* returned and have been checked, and the aggregator has done nothing yet
C14_Witness ==
    /\ pc = "container_wait"
    /\ ti = 3
    /\ running = {combined_config[3].name}
    /\ Len(report_files) = 2
    /\ combine_calls = 0
    /\ ai = 0

PullOutcomes == {"pulled", "ImageNotFound", "Exception"}

\* the attempted tests that have an image, in manifest order
AttemptedWithImage ==
    SelectSeq([i \in DOMAIN attempts |-> combined_config[i]],
              LAMBDA t : t.data.image # "")

\* one pull per attempted test with an image, of that image, in order; the
\* test being started has its pull still ahead
OnePullEach ==
    LET due == IF pc = "pull"
               THEN SubSeq(AttemptedWithImage, 1, Len(AttemptedWithImage) - 1)
               ELSE AttemptedWithImage
    IN pulls = [i \in DOMAIN due |-> [name |-> due[i].name,
                                      image |-> due[i].data.image]]

\* the i-th container run is the one of the i-th pull, and no pull is left
\* without its run
PullThenRun ==
    /\ Len(containers_run) <= Len(pulls)
    /\ \A i \in DOMAIN containers_run : containers_run[i].name = pulls[i].name
    /\ Len(pulls) > Len(containers_run) => pc \in {"container", "container_wait"}
    /\ pc \in {"container", "container_wait"} =>
         /\ Len(pulls) = Len(containers_run) + 1
         /\ pulls[Len(pulls)].name = combined_config[ti].name
         /\ last_pull \in PullOutcomes

NoImageNoPull ==
    \A i \in DOMAIN attempts :
        MissingImage(i) =>
            /\ \A q \in Range(pulls) : q.name # attempts[i]
            /\ \A r \in Range(containers_run) : r.name # attempts[i]
            /\ attempts[i] \in Range(failures)

\* whatever the pull did, the next steps are the container run of that test
PullNeverPrevents ==
    /\ pc = "pull" /\ pc' # pc =>
         /\ pc' = "container"
         /\ last_pull' \in PullOutcomes
         /\ failures' = failures
         /\ ti' = ti
    /\ pc = "container" /\ pc' # pc =>
         /\ pc' = "container_wait"
         /\ running' = {combined_config[ti].name}
         /\ last_pull' = last_pull

\* C15: the pull is best-effort.  Every attempted test with an image has
\* exactly one pull, of its image, before its container run; whether the pull
\* succeeded, found no image or failed otherwise, the container run of that
\* test is the next thing attempted and no failure is recorded for the pull;
\* a test without image is a recorded failure with no pull and no run.
C15_PullBestEffort ==
    /\ [](ManifestReturned /\ pc # "loaded" =>
            OnePullEach /\ PullThenRun /\ NoImageNoPull)
    /\ [][PullNeverPrevents]_vars

\* the pull of the second test failed with an error other than ImageNotFound
\* and its container executes; the first test had no image: no pull, no run
C15_Witness ==
    /\ pc = "container_wait"
    /\ last_pull = "Exception"
    /\ ti = 2
    /\ MissingImage(1)
    /\ Len(pulls) = 1
    /\ failures = <<combined_config[1].name>>
    /\ containers_run = <<>>

-----------------------------------------------------------------------------
(* run on sources whose test names are YAML scalars of more than one type: *)
(* yaml.safe_load gives the key 1 as an int and the key "1" as a str       *)

KeyDocs ==
    { NoTests,
      WithTests(<<Decl(IntVal(1), "img", <<>>)>>),
      WithTests(<<Decl(StrVal("1"), "img", <<>>)>>) }

KeyInit ==
    /\ pc = "start"
    /\ \E n \in 0 .. MaxFiles : fs_config \in [1 .. n -> KeyDocs]
    /\ in_name = ""
    /\ in_config = <<>>
    /\ Quiet

KeySpec == KeyInit /\ [][Next]_vars

\* C16: the artifact names of the manifest entries are pairwise distinct, and
\* so are the names run collects for combine_reports: no two tests of a run
\* write, or are looked up under, the same <name>_report.xml.
C16_ArtifactNamesDistinct ==
    ManifestReturned =>
        /\ \A i, j \in DOMAIN combined_config :
             i # j => ReportFile(combined_config[i].name)
                        # ReportFile(combined_config[j].name)
        /\ \A i, j \in DOMAIN report_files :
             i # j => report_files[i] # report_files[j]

-----------------------------------------------------------------------------
(* properties of run, continued                                            *)

\* the declaration a manifest entry was stored from, and the path of its source
DeclOf(entry) == fs_config[entry.data.declared[1]].tests[entry.data.declared[2]]

DeclaringPath(entry) == PathStr(entry.data.declared[1])

SourceFileItems(cfg) == { i \in DOMAIN cfg : cfg[i][1] = SourceFileKey }

\* the entry's config has one source_file item, the declaring path, and keeps
\* every other item of the declaration
Tagged(entry) ==
    LET cfg == entry.data.config IN
      /\ Cardinality(SourceFileItems(cfg)) = 1
      /\ \A i \in SourceFileItems(cfg) : cfg[i][2] = StrVal(DeclaringPath(entry))
      /\ entry.data.image = DeclOf(entry).image
      /\ \A item \in Range(DeclOf(entry).config) :
           item[1] # SourceFileKey => item \in Range(cfg)

\* C17: provenance always wins.  Every manifest entry has a config mapping
\* whose source_file is the path of the source that declared the entry,
\* whether the declaration had no config, a config without source_file or a
\* source_file of its own; and the environment of every container run has
\* SPECIAL_SOURCE_FILE set to that path.
C17_ProvenanceWins ==
    /\ ManifestReturned => \A i \in DOMAIN combined_config : Tagged(combined_config[i])
    /\ pc \in {"container_wait", "check_report"} =>
         /\ "SPECIAL_SOURCE_FILE" \in DOMAIN env_vars
         /\ env_vars["SPECIAL_SOURCE_FILE"] = DeclaringPath(combined_config[ti])

\* the container of a test executes whose declaration, in the second source,
\* supplied a source_file of its own
C17_Witness ==
    /\ pc = "container_wait"
    /\ combined_config[ti].data.declared[1] = 2
    /\ \E item \in Range(DeclOf(combined_config[ti]).config) :
         /\ item[1] = SourceFileKey
         /\ item[2] # StrVal(DeclaringPath(combined_config[ti]))
    /\ env_vars["SPECIAL_SOURCE_FILE"] = PathStr(2)

AllZero ==
    /\ summary["total_tests"] = 0
    /\ summary["total_failures"] = 0
    /\ summary["total_errors"] = 0
    /\ summary["total_skipped"] = 0

\* C18: run writes the combined report if and only if some run_test call
\* returned.  It is never written twice or before the aggregation is over;
\* when run is done it has been written exactly once if a container call
\* returned, also when every listed artifact was absent or unparseable (the
\* report then has no suite and the four counters are zero), and not at all,
\* with no combine_reports call, if none returned.
C18_WrittenIffReturned ==
    /\ writes <= 1
    /\ pc # "done" => NoCombinedReport
    /\ pc = "done" =>
         /\ writes = 1 <=> ReturnedRuns # <<>>
         /\ writes = 1 <=> report_files # <<>>
         /\ writes = combine_calls
         /\ writes = 1 =>
              /\ CombinedReportName \in DOMAIN reports_dir
              /\ reports_dir[CombinedReportName].suites = combined
              /\ merged_log = <<>> =>
                   /\ reports_dir[CombinedReportName].suites = <<>>
                   /\ AllZero
         /\ writes = 0 => NoCombinedReport /\ summary = EmptyDict

\* two containers returned, one artifact was absent and the other unparseable:
\* the combined report was written once, without suites
C18_Witness ==
    /\ pc = "done"
    /\ Len(ReturnedRuns) = 2
    /\ Len(skip_warnings) = 1
    /\ Len(parse_errors) = 1
    /\ merged_log = <<>>
    /\ writes = 1
    /\ reports_dir[CombinedReportName].suites = <<>>
    /\ AllZero

====
